---- MODULE Spec2Model ----
(***************************************************************************)
(* The real-time file monitoring pipeline of the ransomware detection      *)
(* backend: FileMonitor (start/stop/status), its watchdog observers, the   *)
(* FileMonitorHandler queue and worker thread, and the endpoint callback   *)
(* that analyses a monitored file and broadcasts the result.               *)
(*                                                                         *)
(* Strings the code inspects (extensions, file names) are sequences of     *)
(* one-character strings, so that lower(), startswith('.') and splitext()  *)
(* are computed, not assumed.                                              *)
(***************************************************************************)
EXTENDS Integers, Sequences, FiniteSets, TLC

VARIABLES
    running,          \* FileMonitor.running
    monitored_paths,  \* FileMonitor.monitored_paths (a set)
    observers,        \* FileMonitor.observers: path -> observer id, 0 = no entry
    handler,          \* FileMonitor.handler: handler id, 0 = None
    all_observers,    \* the Observer threads that run: [path, handler]
    file_extensions,  \* FileMonitorHandler.file_extensions, per handler
    file_queue,       \* FileMonitorHandler.file_queue, per handler
    processed_files,  \* the local processed_files of _process_queue, per handler
    pc,               \* position of each handler's worker thread
    cur,              \* the item a worker holds between get() and task_done()
    fs,               \* content of each file on disk
    published,        \* the envelopes handed to broadcast_analysis_result by the
                      \* last step (none after a step that publishes nothing)
    burst,            \* history: per file, the filesystem events so far (each
                      \* with the handler registered for it, 0 if none), the
                      \* results published, and how many events had happened
                      \* when a callback first ran for the file (0: none has)
    stale,            \* history: per handler, how many items at the head of its
                      \* queue were queued when stop() was last called
    cur_stale,        \* history: whether the item a worker holds was one of them
    ret,              \* the API call made by the last step, with its response and
                      \* the request as far as the call read it; NoResponse after
                      \* any other step
    nEvents,          \* number of filesystem operations so far
    bulk,             \* per handler, the number of paths in processed_files
                      \* besides the named ones: paths of files that were
                      \* seen once and never again
    seen,             \* history: per handler, the named paths whose callback
                      \* ran since the worker last found its queue empty
    compacted,        \* history: per handler, whether the last step of its
                      \* worker was a callback that cut the window back
    active_connections, \* the module's list of connected WebSockets
    ws,               \* position of monitoring_websocket for each WebSocket
    inbox,            \* the messages each WebSocket was sent, in order
    pub,              \* position of each broadcast_analysis_result in progress
    scan,             \* the last call of the static analysis and its result
    scanned           \* history: per scanned (content, language), the first
                      \* result, whether every later result equalled it, and
                      \* the handler counter at the first and the last call

vars == << running, monitored_paths, observers, handler, all_observers,
           file_extensions, file_queue, processed_files, pc, cur, fs,
           published, burst, stale, cur_stale, ret, nEvents,
           bulk, seen, compacted, active_connections, ws, inbox, pub, scan,
           scanned >>

scanVars == << scan, scanned >>
windowVars == << bulk, seen, compacted >>
broadcastVars == << active_connections, ws, inbox, pub >>

histVars == << burst, stale, cur_stale >>
monitorVars == << running, monitored_paths, observers, handler, all_observers >>
workerVars == << file_extensions, file_queue, processed_files, pc, cur >>

-----------------------------------------------------------------------------
(* Bounds of the model *)

\* FileMonitorHandler instances (one per start() that passes the running check)
MaxHandlers == 2
\* length of the path list given to start()
MaxPaths == 2
\* filesystem operations (create / modify / delete)
MaxEvents == 3
\* items waiting in a queue when one more new file appears
MaxBacklog == 2
\* lines of a scanned content
MaxLines == 2
\* fragments in one line of a scanned content
MaxFragments == 2
\* results in a list given to calculate_suspicion_score
MaxFindings == 4
\* lines of a content scanned for the context of its findings
MaxContextLines == 4

-----------------------------------------------------------------------------
(* Strings *)

Lower(c) ==
    CASE c = "A" -> "a"
      [] c = "B" -> "b"
      [] c = "H" -> "h"
      [] c = "L" -> "l"
      [] c = "M" -> "m"
      [] c = "T" -> "t"
      [] c = "X" -> "x"
      [] c = "J" -> "j"
      [] c = "S" -> "s"
      [] c = "P" -> "p"
      [] c = "Y" -> "y"
      [] c = "E" -> "e"
      [] OTHER -> c

LowerStr(s) == [i \in 1..Len(s) |-> Lower(s[i])]

\* positions of '.' in s
DotPositions(s) == {i \in 1..Len(s) : s[i] = "."}

MaxOf(S) == CHOOSE m \in S : \A x \in S : x <= m

\* os.path.splitext on a base name: the extension starts at the last dot,
\* unless only dots precede it
SplitExt(s) ==
    IF DotPositions(s) = {} THEN << >>
    ELSE LET d == MaxOf(DotPositions(s))
         IN IF \E i \in 1..(d - 1) : s[i] # "."
            THEN SubSeq(s, d, Len(s))
            ELSE << >>

SeqRange(s) == {s[i] : i \in 1..Len(s)}

\* Optional values: None, or Some(v)
None == [isNone |-> TRUE, val |-> << >>]
Some(v) == [isNone |-> FALSE, val |-> v]

\* Python truthiness of an Optional[List]
Truthy(o) == ~o.isNone /\ o.val # << >>

JS == << ".", "j", "s" >>
HTML == << ".", "h", "t", "m", "l" >>
HTM == << ".", "h", "t", "m" >>
PY == << ".", "p", "y" >>
PS1 == << ".", "p", "s", "1" >>

\* the built-in default of FileMonitorHandler.__init__
DefaultExtensions == << JS, HTML, HTM, PY, PS1 >>

-----------------------------------------------------------------------------
(* The environment: directories, files, request inputs *)

Paths == {"d1", "d2", "nodir", "afile"}

\* os.path.exists / os.path.isdir
PathExists(p) == p \in {"d1", "d2", "afile"}
PathIsDir(p) == p \in {"d1", "d2"}

\* files (and one sub-directory) below the watched directories
FileA == [dir |-> "d1", name |-> << "a", ".", "j", "s" >>, is_directory |-> FALSE]
FileB == [dir |-> "d2", name |-> << "B", ".", "P", "Y" >>, is_directory |-> FALSE]
FileT == [dir |-> "d1", name |-> << "t", ".", "t", "x", "t" >>, is_directory |-> FALSE]
SubDir == [dir |-> "d1", name |-> << "s", ".", "j", "s" >>, is_directory |-> TRUE]
Files == {FileA, FileB, FileT, SubDir}

\* stands for the files that appear once and are never touched again: every
\* event for it is the creation of one more file whose path is new
FreshFile == [dir |-> "d1", name |-> << "n", ".", "j", "s" >>, is_directory |-> FALSE]

\* request.file_extensions values tried
ExtInputs ==
    { None,
      Some(<< >>),
      Some(<< << "j", "s" >> >>),
      Some(<< << ".", "P", "Y" >>, << "t", "x", "t" >> >>) }

ListsOver(S) == UNION {[1..n -> S] : n \in 0..MaxPaths}

PathLists == ListsOver(Paths)

Handlers == 1..MaxHandlers

NoItem == [event_type |-> "none", path |-> FileA]

-----------------------------------------------------------------------------
(* POST /monitor/start, /monitor/stop, GET /monitor/status *)

StartsWithDot(e) == Len(e) > 0 /\ e[1] = "."

\* the endpoint's "convert file extensions to include dots if not already"
NormalizeExtensions(req_exts) ==
    IF Truthy(req_exts)
    THEN Some([i \in 1..Len(req_exts.val) |->
                 IF StartsWithDot(req_exts.val[i])
                 THEN req_exts.val[i]
                 ELSE << "." >> \o req_exts.val[i]])
    ELSE req_exts

\* FileMonitorHandler.__init__: file_extensions or the built-in list
HandlerExtensions(exts) == IF Truthy(exts) THEN exts.val ELSE DefaultExtensions

\* the test without its isdir() half
ValidPath_NoIsDir(p, fail) == PathExists(p) /\ p \notin fail

\* the test of the loop of start_monitoring; fail holds the paths whose
\* Observer set-up raises
ValidPath(p, fail) == PathExists(p) /\ PathIsDir(p) /\ p \notin fail

ValidPaths(paths, fail) == SelectSeq(paths, LAMBDA p : ValidPath(p, fail))
InvalidPaths(paths, fail) == SelectSeq(paths, LAMBDA p : ~ValidPath(p, fail))

NumHandlers == Cardinality({h \in Handlers : pc[h] # "none"})

NoResponse == [op |-> "none"]

\* a step that answers no API call and publishes nothing
\* a step that hands nothing to the broadcaster and is no static analysis
NoPublish == published' = << >> /\ UNCHANGED << broadcastVars, scanVars >>

Silent == ret' = NoResponse /\ NoPublish

NoRequest == [paths |-> << >>, file_extensions |-> None, fail |-> {}]

\* a FileMonitorResponse, with the call (start or stop) it answers
Response(op, request, status, mon, inv, exts) ==
    [op |-> op, request |-> request, status |-> status, monitored_paths |-> mon,
     invalid_paths |-> inv, file_extensions |-> exts]

\* FileMonitor.get_status
GetStatus ==
    [op |-> "status", running |-> running, monitored_paths |-> monitored_paths,
     file_extensions |-> IF handler # 0 THEN Some(file_extensions[handler])
                         ELSE None]

StartRequest(paths, req_exts, fail) ==
    [paths |-> paths, file_extensions |-> req_exts, fail |-> fail]

\* start_monitoring after the running check: a new handler (with its queue
\* and its worker thread), then one Observer per valid path of the list
StartFromIdle(request, paths, exts, fail) ==
    LET h == NumHandlers + 1
        valid == ValidPaths(paths, fail)
        invalid == InvalidPaths(paths, fail)
        base == Len(all_observers)
        created == [i \in 1..Len(valid) |->
                      [path |-> valid[i], handler |-> h]]
    IN  /\ handler' = h
        /\ file_extensions' = [file_extensions EXCEPT ![h] = HandlerExtensions(exts)]
        /\ file_queue' = [file_queue EXCEPT ![h] = << >>]
        /\ processed_files' = [processed_files EXCEPT ![h] = {}]
        /\ pc' = [pc EXCEPT ![h] = "get"]
        /\ all_observers' = all_observers \o created
        /\ observers' = [p \in Paths |->
                           IF p \in SeqRange(valid)
                           THEN base + MaxOf({i \in 1..Len(valid) : valid[i] = p})
                           ELSE observers[p]]
        /\ monitored_paths' = monitored_paths \cup SeqRange(valid)
        /\ IF valid # << >>
           THEN /\ running' = TRUE
                /\ ret' = Response("start", request, "started",
                                 Some(valid), Some(invalid), exts)
           ELSE /\ running' = running
                /\ ret' = Response("start", request, "failed",
                                 None, Some(invalid), None)
        /\ NoPublish
        /\ UNCHANGED << cur, fs, histVars, nEvents, windowVars >>

\* start_monitoring constructing the handler before it tests running
StartMonitoring_HandlerFirst(paths, req_exts, fail) ==
    IF running
    THEN /\ NumHandlers < MaxHandlers
         /\ handler' = NumHandlers + 1
         /\ file_extensions' =
               [file_extensions EXCEPT ![NumHandlers + 1] =
                   HandlerExtensions(NormalizeExtensions(req_exts))]
         /\ pc' = [pc EXCEPT ![NumHandlers + 1] = "get"]
         /\ ret' = Response("start", NoRequest, "already_running",
                            None, None, None)
         /\ NoPublish
         /\ UNCHANGED << running, monitored_paths, observers, all_observers,
                         file_queue, processed_files, cur, fs, histVars,
                         nEvents, windowVars >>
    ELSE /\ NumHandlers < MaxHandlers
         /\ StartFromIdle(StartRequest(paths, req_exts, fail), paths,
                          NormalizeExtensions(req_exts), fail)

\* the endpoint start_monitoring and FileMonitor.start_monitoring
StartMonitoring(paths, req_exts, fail) ==
    IF running
    THEN /\ ret' = Response("start", NoRequest, "already_running",
                            None, None, None)
         /\ NoPublish
         /\ UNCHANGED << monitorVars, workerVars, fs, histVars, nEvents,
                         windowVars >>
    ELSE /\ NumHandlers < MaxHandlers
         /\ StartFromIdle(StartRequest(paths, req_exts, fail), paths,
                          NormalizeExtensions(req_exts), fail)

\* the elements of seq at the positions in keep, in order
Restrict(seq, keep) ==
    [j \in 1..Cardinality(keep) |->
        seq[CHOOSE i \in keep : Cardinality({k \in keep : k <= i}) = j]]

\* the positions of the Observers the observers dictionary holds
Registered == {observers[p] : p \in Paths} \ {0}

\* stop_monitoring after the running check: every Observer of the dictionary
\* is stopped and joined, so its thread is gone
StopRunning ==
    /\ all_observers' =
          Restrict(all_observers, (1..Len(all_observers)) \ Registered)
    /\ observers' = [p \in Paths |-> 0]
    /\ monitored_paths' = {}
    /\ running' = FALSE
    /\ ret' = Response("stop", NoRequest, "stopped", None, None, None)
    /\ NoPublish
    /\ stale' = [h \in Handlers |-> Len(file_queue[h])]
    /\ UNCHANGED << handler, workerVars, fs, burst, cur_stale, nEvents,
                    windowVars >>

\* stop_monitoring without its running check
StopMonitoring_NoCheck == StopRunning

\* FileMonitor.stop_monitoring
StopMonitoring ==
    IF ~running
    THEN /\ ret' = Response("stop", NoRequest, "not_running", None, None, None)
         /\ NoPublish
         /\ UNCHANGED << monitorVars, workerVars, fs, histVars, nEvents,
                         windowVars >>
    ELSE StopRunning

\* the endpoint get_monitoring_status
Status ==
    /\ ret' = GetStatus
    /\ NoPublish
    /\ UNCHANGED << monitorVars, workerVars, fs, histVars, nEvents,
                    windowVars >>

-----------------------------------------------------------------------------
(* Filesystem events: the watchdog observers call on_created / on_modified *)

\* FileMonitorHandler._is_valid_file
IsValidFile(h, f) ==
    IF file_extensions[h] = << >> THEN TRUE
    ELSE SplitExt(LowerStr(f.name)) \in SeqRange(file_extensions[h])

\* the guard of on_created and on_modified
Accepts(h, f) == ~f.is_directory /\ IsValidFile(h, f)

\* the running observers that deliver an event for f to handler h (every
\* watch is recursive)
Watching(h, f) ==
    {i \in 1..Len(all_observers) :
        /\ all_observers[i].handler = h
        /\ all_observers[i].path = f.dir}

Copies(n, x) == [i \in 1..n |-> x]

\* what handler h enqueues for one filesystem event
Enqueued(h, etype, f) ==
    IF Accepts(h, f)
    THEN Copies(Cardinality(Watching(h, f)), [event_type |-> etype, path |-> f])
    ELSE << >>

NoBurst == [events |-> << >>, pubs |-> 0, first_read |-> 0,
            failed |-> FALSE, recovered |-> FALSE]

\* the handler of the current run if the pipeline is Running, the directory
\* of f is monitored and the filter lets f through; 0 otherwise
MonitoringHandler(f) ==
    IF running /\ f.dir \in monitored_paths
    THEN IF Accepts(handler, f) THEN handler ELSE 0
    ELSE 0

\* a create / modify / delete of f joins the history of f
Recorded(etype, f) ==
    burst' = [burst EXCEPT ![f].events =
                 Append(@, [event_type |-> etype,
                            handler |-> MonitoringHandler(f)])]

\* on_created / on_modified of every handler an observer reports to
Dispatch(etype, f) ==
    /\ file_queue' = [h \in Handlers |-> file_queue[h] \o Enqueued(h, etype, f)]
    /\ Recorded(etype, f)

Contents == {"blank", "text", "locked"}

\* a file (or sub-directory) appears in a directory
FsCreate(f, content) ==
    /\ nEvents < MaxEvents
    /\ fs[f] = "missing"
    /\ fs' = [fs EXCEPT ![f] = IF f.is_directory THEN "dir" ELSE content]
    /\ nEvents' = nEvents + 1
    /\ Silent
    /\ Dispatch("created", f)
    /\ UNCHANGED << monitorVars, file_extensions, processed_files, pc, cur,
                    stale, cur_stale, windowVars >>

\* a file is written (or the entries of a sub-directory change)
FsModify(f, content) ==
    /\ nEvents < MaxEvents
    /\ fs[f] # "missing"
    /\ fs' = [fs EXCEPT ![f] = IF f.is_directory THEN "dir" ELSE content]
    /\ nEvents' = nEvents + 1
    /\ Silent
    /\ Dispatch("modified", f)
    /\ UNCHANGED << monitorVars, file_extensions, processed_files, pc, cur,
                    stale, cur_stale, windowVars >>

\* one more new file with a monitored extension appears in d1, while no
\* queue holds MaxBacklog items
FsCreateNew ==
    /\ \A h \in Handlers : Len(file_queue[h]) < MaxBacklog
    /\ file_queue' = [h \in Handlers |->
                        file_queue[h] \o Enqueued(h, "created", FreshFile)]
    /\ Silent
    /\ UNCHANGED << monitorVars, file_extensions, processed_files, pc, cur,
                    fs, histVars, nEvents, windowVars >>

\* a file is removed: the handler does not override on_deleted
FsDelete(f) ==
    /\ nEvents < MaxEvents
    /\ fs[f] # "missing"
    /\ fs' = [fs EXCEPT ![f] = "missing"]
    /\ nEvents' = nEvents + 1
    /\ Silent
    /\ Recorded("deleted", f)
    /\ UNCHANGED << monitorVars, workerVars, stale, cur_stale, windowVars >>

-----------------------------------------------------------------------------
(* The static analysis: analyze_file_content and calculate_suspicion_score *)
(*                                                                         *)
(* A content is the list of its lines (content.split('\n')), a line the    *)
(* list of the fragments it is made of, left to right.  A pattern of a     *)
(* catalog is described by what its regular expression does on each        *)
(* fragment: whether it compiles, and the text it matches.                 *)

NoScan == [op |-> "none"]

\* the fragments a line can be made of
Fragments == {"eval(x)", "import os", "navigator.userAgent",
              "<script>eval(y)</script>", "IEX $x"}

JS_PATTERNS ==
    <<
       [pattern_name |-> "eval_usage", severity |-> "high",
        context_lines |-> 2, valid |-> TRUE,
        hits |-> {<< "eval(x)", "eval(x)" >>, << "<script>eval(y)</script>", "eval(y)" >>}],
       [pattern_name |-> "function_constructor", severity |-> "high",
        context_lines |-> 2, valid |-> TRUE,
        hits |-> {}],
       [pattern_name |-> "encoded_strings", severity |-> "medium",
        context_lines |-> 1, valid |-> TRUE,
        hits |-> {}],
       [pattern_name |-> "document_write", severity |-> "medium",
        context_lines |-> 1, valid |-> TRUE,
        hits |-> {}],
       [pattern_name |-> "base64_content", severity |-> "low",
        context_lines |-> 0, valid |-> TRUE,
        hits |-> {}],
       [pattern_name |-> "network_access", severity |-> "medium",
        context_lines |-> 1, valid |-> TRUE,
        hits |-> {}],
       [pattern_name |-> "filesystem_access", severity |-> "high",
        context_lines |-> 2, valid |-> TRUE,
        hits |-> {}],
       [pattern_name |-> "environment_detection", severity |-> "low",
        context_lines |-> 1, valid |-> TRUE,
        hits |-> {<< "navigator.userAgent", "navigator.userAgent" >>}],
       [pattern_name |-> "string_obfuscation", severity |-> "medium",
        context_lines |-> 1, valid |-> TRUE,
        hits |-> {}],
       [pattern_name |-> "websocket_usage", severity |-> "medium",
        context_lines |-> 1, valid |-> TRUE,
        hits |-> {}]
    >>

HTML_PATTERNS ==
    <<
       [pattern_name |-> "obfuscated_script", severity |-> "high",
        context_lines |-> 2, valid |-> TRUE,
        hits |-> {<< "<script>eval(y)</script>", "<script>eval(y)</script>" >>}],
       [pattern_name |-> "suspicious_iframe", severity |-> "high",
        context_lines |-> 2, valid |-> TRUE,
        hits |-> {}],
       [pattern_name |-> "suspicious_script_src", severity |-> "medium",
        context_lines |-> 1, valid |-> TRUE,
        hits |-> {}],
       [pattern_name |-> "encoded_attribute", severity |-> "high",
        context_lines |-> 2, valid |-> TRUE,
        hits |-> {}],
       [pattern_name |-> "event_handler_script", severity |-> "high",
        context_lines |-> 2, valid |-> TRUE,
        hits |-> {}],
       [pattern_name |-> "meta_refresh", severity |-> "medium",
        context_lines |-> 1, valid |-> TRUE,
        hits |-> {}],
       [pattern_name |-> "base_tag_manipulation", severity |-> "medium",
        context_lines |-> 1, valid |-> TRUE,
        hits |-> {}]
    >>

PYTHON_PATTERNS ==
    <<
       [pattern_name |-> "exec_eval_usage", severity |-> "high",
        context_lines |-> 2, valid |-> TRUE,
        hits |-> {<< "eval(x)", "eval(x)" >>, << "<script>eval(y)</script>", "eval(y)" >>}],
       [pattern_name |-> "os_system_calls", severity |-> "high",
        context_lines |-> 2, valid |-> TRUE,
        hits |-> {}],
       [pattern_name |-> "suspicious_imports", severity |-> "medium",
        context_lines |-> 1, valid |-> TRUE,
        hits |-> {<< "import os", "import os" >>}],
       [pattern_name |-> "network_operations", severity |-> "medium",
        context_lines |-> 1, valid |-> TRUE,
        hits |-> {}],
       [pattern_name |-> "file_operations", severity |-> "medium",
        context_lines |-> 1, valid |-> TRUE,
        hits |-> {}],
       [pattern_name |-> "base64_operations", severity |-> "medium",
        context_lines |-> 1, valid |-> TRUE,
        hits |-> {}],
       [pattern_name |-> "temp_file_creation", severity |-> "low",
        context_lines |-> 1, valid |-> TRUE,
        hits |-> {}],
       [pattern_name |-> "code_compilation", severity |-> "high",
        context_lines |-> 2, valid |-> TRUE,
        hits |-> {}],
       [pattern_name |-> "process_creation", severity |-> "low",
        context_lines |-> 1, valid |-> TRUE,
        hits |-> {}]
    >>

POWERSHELL_PATTERNS ==
    <<
       [pattern_name |-> "obfuscated_command", severity |-> "high",
        context_lines |-> 2, valid |-> FALSE,
        hits |-> {}],
       [pattern_name |-> "base64_payload", severity |-> "high",
        context_lines |-> 2, valid |-> TRUE,
        hits |-> {}],
       [pattern_name |-> "suspicious_cmdlets", severity |-> "high",
        context_lines |-> 2, valid |-> TRUE,
        hits |-> {<< "IEX $x", "IEX" >>}],
       [pattern_name |-> "script_download", severity |-> "high",
        context_lines |-> 2, valid |-> TRUE,
        hits |-> {}],
       [pattern_name |-> "execution_bypass", severity |-> "high",
        context_lines |-> 2, valid |-> TRUE,
        hits |-> {}],
       [pattern_name |-> "hidden_execution", severity |-> "high",
        context_lines |-> 2, valid |-> TRUE,
        hits |-> {}],
       [pattern_name |-> "wmi_usage", severity |-> "medium",
        context_lines |-> 1, valid |-> TRUE,
        hits |-> {}],
       [pattern_name |-> "registry_operations", severity |-> "medium",
        context_lines |-> 1, valid |-> TRUE,
        hits |-> {}],
       [pattern_name |-> "scheduled_task", severity |-> "medium",
        context_lines |-> 1, valid |-> TRUE,
        hits |-> {}]
    >>

RECURSIVE GCD(_, _)
GCD(a, b) == IF b = 0 THEN a ELSE GCD(b, a % b)

\* exact arithmetic on fractions num/den with num >= 0 and den > 0, kept in
\* lowest terms
Frac(n, d) == [num |-> n \div GCD(n, d), den |-> d \div GCD(n, d)]

FracAdd(a, b) == Frac(a.num * b.den + b.num * a.den, a.den * b.den)

FracSub(a, b) == Frac(a.num * b.den - b.num * a.den, a.den * b.den)

FracMul(a, b) == Frac(a.num * b.num, a.den * b.den)

\* a / b for b > 0
FracDiv(a, b) == Frac(a.num * b.den, a.den * b.num)

FracLe(a, b) == a.num * b.den <= b.num * a.den

FracEq(a, b) == a.num * b.den = b.num * a.den

FracMin(a, b) == IF FracLe(a, b) THEN a ELSE b

Zero == Frac(0, 1)

One == Frac(1, 1)

\* the concatenation of a sequence of sequences
RECURSIVE Flatten(_)
Flatten(ss) == IF ss = << >> THEN << >> ELSE Head(ss) \o Flatten(Tail(ss))

MinOf2(a, b) == IF a <= b THEN a ELSE b

MaxOf2(a, b) == IF a >= b THEN a ELSE b

\* the same slice starting one line late
Context_StartsLate(lines, line_num, context_lines) ==
    LET start_line == MaxOf2(0, line_num - context_lines)
        end_line == MinOf2(Len(lines), line_num + context_lines)
    IN SubSeq(lines, start_line + 1, end_line)

\* lines[start_line:end_line] around the 1-indexed line line_num
Context(lines, line_num, context_lines) ==
    LET start_line == MaxOf2(0, line_num - context_lines - 1)
        end_line == MinOf2(Len(lines), line_num + context_lines)
    IN SubSeq(lines, start_line + 1, end_line)

\* the result appended for a match of the pattern in fragment k of line n
MatchResults(p, lines, n, k) ==
    LET hit == {h \in p.hits : h[1] = lines[n][k]}
    IN IF hit = {} THEN << >>
       ELSE << [pattern_name |-> p.pattern_name,
                severity |-> p.severity,
                line_number |-> n,
                matched_text |-> (CHOOSE h \in hit : TRUE)[2],
                context |-> Context(lines, n, p.context_lines)] >>

\* re.finditer for one pattern: line by line, left to right in a line (a
\* pattern searched in the whole content finds its matches in the same order)
PatternResults(p, lines) ==
    Flatten([n \in 1..Len(lines) |->
                Flatten([k \in 1..Len(lines[n]) |-> MatchResults(p, lines, n, k)])])

\* the same loop with the lines outside and the patterns inside
Analyze_LineFirst(patterns, content) ==
    IF \E i \in 1..Len(patterns) : ~patterns[i].valid
    THEN [raised |-> TRUE, results |-> << >>]
    ELSE [raised |-> FALSE,
          results |-> Flatten([n \in 1..Len(content) |->
                         Flatten([i \in 1..Len(patterns) |->
                            Flatten([k \in 1..Len(content[n]) |->
                               MatchResults(patterns[i], content, n, k)])])])]

\* the loop over a catalog: an outcome is the list of results, or the
\* exception re.finditer raises when a pattern does not compile
Analyze(patterns, content) ==
    IF \E i \in 1..Len(patterns) : ~patterns[i].valid
    THEN [raised |-> TRUE, results |-> << >>]
    ELSE [raised |-> FALSE,
          results |-> Flatten([i \in 1..Len(patterns) |->
                                  PatternResults(patterns[i], content)])]

analyze_javascript(content) == Analyze(JS_PATTERNS, content)

analyze_html(content) == Analyze(HTML_PATTERNS, content)

analyze_python(content) == Analyze(PYTHON_PATTERNS, content)

analyze_powershell(content) == Analyze(POWERSHELL_PATTERNS, content)

\* the same dict counting every name once
get_pattern_count_Once(analysis_results) ==
    [name \in {analysis_results[i].pattern_name : i \in 1..Len(analysis_results)} |-> 1]

\* dict of pattern name -> number of results with that name
get_pattern_count(analysis_results) ==
    [name \in {analysis_results[i].pattern_name : i \in 1..Len(analysis_results)} |->
        Cardinality({i \in 1..Len(analysis_results) :
                        analysis_results[i].pattern_name = name})]

\* the same weights with those of medium and low exchanged
SeverityWeight_Exchanged(severity) ==
    CASE severity = "high" -> Frac(10, 10)
      [] severity = "medium" -> Frac(3, 10)
      [] severity = "low" -> Frac(6, 10)
      [] OTHER -> Frac(5, 10)

\* severity_weights.get(severity, 0.5)
SeverityWeight(severity) ==
    CASE severity = "high" -> Frac(10, 10)
      [] severity = "medium" -> Frac(6, 10)
      [] severity = "low" -> Frac(3, 10)
      [] OTHER -> Frac(5, 10)

RECURSIVE TotalScore(_)
TotalScore(analysis_results) ==
    IF analysis_results = << >> THEN Zero
    ELSE FracAdd(SeverityWeight(Head(analysis_results).severity),
                 TotalScore(Tail(analysis_results)))

\* the same function with the low scores cut off below 0.3 only
calculate_suspicion_score_StrictCut(analysis_results) ==
    IF analysis_results = << >> THEN Zero
    ELSE LET total_score == TotalScore(analysis_results)
         IN IF ~FracLe(Frac(3, 10), total_score) THEN Zero
            ELSE FracMin(One,
                    FracSub(One,
                        FracDiv(One, FracAdd(One, FracMul(Frac(5, 10), total_score)))))

calculate_suspicion_score(analysis_results) ==
    IF analysis_results = << >> THEN Zero
    ELSE LET total_score == TotalScore(analysis_results)
             normalized_score ==
                 FracMin(One,
                    FracSub(One,
                        FracDiv(One, FracAdd(One, FracMul(Frac(5, 10), total_score)))))
         IN IF FracLe(total_score, Frac(3, 10)) THEN Zero ELSE normalized_score

\* language names, without the dot of an extension
Chars_javascript == << "j", "a", "v", "a", "s", "c", "r", "i", "p", "t" >>
Chars_js == << "j", "s" >>
Chars_html == << "h", "t", "m", "l" >>
Chars_htm == << "h", "t", "m" >>
Chars_python == << "p", "y", "t", "h", "o", "n" >>
Chars_py == << "p", "y" >>
Chars_powershell == << "p", "o", "w", "e", "r", "s", "h", "e", "l", "l" >>
Chars_ps1 == << "p", "s", "1" >>

EmptyContent == << << >> >>

Failure(error) ==
    [success |-> FALSE,
     error |-> Some(error),
     file_type |-> None,
     results |-> << >>,
     summary |-> [pattern_count |-> << >>,
                  total_detections |-> 0,
                  suspicion_score |-> Zero]]

\* the body of analyze_file_content after file_type = file_type.lower();
\* a result without the key "error" has error = None, one without the key
\* "file_type" has file_type = None
AnalyzeLowered(file_content, file_type) ==
    LET outcome ==
            CASE file_type \in {Chars_javascript, Chars_js} ->
                     analyze_javascript(file_content)
              [] file_type \in {Chars_html, Chars_htm} ->
                     analyze_html(file_content)
              [] file_type \in {Chars_python, Chars_py} ->
                     analyze_python(file_content)
              [] file_type \in {Chars_powershell, Chars_ps1} ->
                     analyze_powershell(file_content)
              [] OTHER -> [raised |-> FALSE, results |-> << >>]
    IN IF file_type \notin {Chars_javascript, Chars_js, Chars_html, Chars_htm,
                            Chars_python, Chars_py, Chars_powershell, Chars_ps1}
       THEN Failure([text |-> "Unsupported file type: ", arg |-> file_type])
       ELSE IF outcome.raised
       THEN Failure([text |-> "unterminated character set at position 105",
                     arg |-> << >>])
       ELSE [success |-> TRUE,
             error |-> None,
             file_type |-> Some(file_type),
             results |-> outcome.results,
             summary |-> [pattern_count |-> get_pattern_count(outcome.results),
                          total_detections |-> Len(outcome.results),
                          suspicion_score |->
                              calculate_suspicion_score(outcome.results)]]

analyze_file_content(file_content, file_type) ==
    IF file_content = EmptyContent
    THEN Failure([text |-> "Empty file content", arg |-> << >>])
    ELSE AnalyzeLowered(file_content, LowerStr(file_type))

get_patterns_by_file_type(file_type) ==
    LET t == LowerStr(file_type)
    IN CASE t \in {Chars_javascript, Chars_js} -> JS_PATTERNS
         [] t \in {Chars_html, Chars_htm} -> HTML_PATTERNS
         [] t \in {Chars_python, Chars_py} -> PYTHON_PATTERNS
         [] t \in {Chars_powershell, Chars_ps1} -> POWERSHELL_PATTERNS
         [] OTHER -> << >>

\* the PatternInfo entries built from a catalog, tagged with a file type
PatternInfos(patterns, file_type) ==
    [i \in 1..Len(patterns) |->
        [pattern_name |-> patterns[i].pattern_name,
         severity |-> patterns[i].severity,
         file_type |-> file_type]]

\* GET /patterns with the query parameter file_type (None when absent)
get_patterns(file_type) ==
    IF ~file_type.isNone /\ file_type.val # << >>
    THEN LET t == LowerStr(file_type.val)
             pattern_dict == get_patterns_by_file_type(t)
         IN IF pattern_dict = << >>
            THEN [status |-> 400, patterns |-> << >>]
            ELSE [status |-> 200, patterns |-> PatternInfos(pattern_dict, t)]
    ELSE [status |-> 200,
          patterns |-> PatternInfos(JS_PATTERNS, Chars_javascript)
                       \o PatternInfos(HTML_PATTERNS, Chars_html)
                       \o PatternInfos(PYTHON_PATTERNS, Chars_python)
                       \o PatternInfos(POWERSHELL_PATTERNS, Chars_powershell)]

\* the history after one more call with the given arguments and result
Noted(content, file_type, result) ==
    LET earlier == {r \in scanned : r.content = content /\ r.file_type = file_type}
    IN IF earlier = {}
       THEN scanned \cup {[content |-> content, file_type |-> file_type,
                           first |-> result, same |-> TRUE, calls |-> 1,
                           first_at |-> handler, last_at |-> handler]}
       ELSE (scanned \ earlier)
            \cup {[r EXCEPT !.same = @ /\ result = r.first,
                            !.calls = 2,
                            !.last_at = handler] : r \in earlier}

\* a call whose result depends on whether the monitor is running
Scan_SeesMonitor(content, file_type) ==
    LET result == IF running THEN Failure([text |-> "Empty file content", arg |-> << >>])
                  ELSE analyze_file_content(content, file_type)
    IN /\ scan' = [op |-> "scan", content |-> content, file_type |-> file_type,
                   result |-> result]
       /\ scanned' = Noted(content, file_type, result)
       /\ UNCHANGED << broadcastVars, monitorVars, workerVars, fs, published,
                       histVars, ret, nEvents, windowVars >>

\* POST /static calls analyze_file_content
Scan(content, file_type) ==
    LET result == analyze_file_content(content, file_type)
    IN /\ scan' = [op |-> "scan", content |-> content, file_type |-> file_type,
                   result |-> result]
       /\ scanned' = Noted(content, file_type, result)
       /\ UNCHANGED << broadcastVars, monitorVars, workerVars, fs, published,
                       histVars, ret, nEvents, windowVars >>

\* GET /patterns
ListPatterns(file_type) ==
    /\ scan' = [op |-> "patterns", file_type |-> file_type,
                response |-> get_patterns(file_type)]
    /\ UNCHANGED << scanned, broadcastVars, monitorVars, workerVars, fs,
                    published, histVars, ret, nEvents, windowVars >>

\* calculate_suspicion_score on a list of results of the given severities
Score(severities) ==
    LET analysis_results == [i \in 1..Len(severities) |-> [severity |-> severities[i]]]
    IN /\ scan' = [op |-> "score", results |-> analysis_results,
                   score |-> calculate_suspicion_score(analysis_results)]
       /\ UNCHANGED << scanned, broadcastVars, monitorVars, workerVars, fs, published,
                       histVars, ret, nEvents, windowVars >>

-----------------------------------------------------------------------------
(* The worker thread of a handler: FileMonitorHandler._process_queue *)

JAVASCRIPT == << "j", "a", "v", "a", "s", "c", "r", "i", "p", "t" >>
PYTHON == << "p", "y", "t", "h", "o", "n" >>
POWERSHELL == << "p", "o", "w", "e", "r", "s", "h", "e", "l", "l" >>

\* the extension of the lower-cased path without its dot, mapped to a type
FileType(f) ==
    LET ext == SplitExt(LowerStr(f.name))
        t == IF ext # << >> THEN Tail(ext) ELSE << >>
    IN  CASE t = Tail(JS) -> JAVASCRIPT
          [] t = Tail(HTML) -> Tail(HTML)
          [] t = Tail(HTM) -> Tail(HTML)
          [] t = Tail(PY) -> PYTHON
          [] t = Tail(PS1) -> POWERSHELL
          [] OTHER -> t

\* the same test letting blank content through
Publishes_AlsoBlank(content) == content \notin {"missing", "dir", "locked"}

\* whether analyze_monitored_file reaches broadcast_analysis_result: the path
\* is an existing regular file, it can be read, its content is not blank
Publishes(content) == content \notin {"missing", "dir", "locked", "blank"}

Envelope(item) ==
    [file_path |-> item.path, file_type |-> FileType(item.path),
     event_type |-> item.event_type]

\* capacity of the dedup window and the size it is cut back to
WindowCapacity == 100
WindowKeep == 50

\* the window without its clean-up
WindowsAfterAdd_NoCompaction(window, n, path) ==
    {[named |-> IF path = FreshFile THEN window ELSE window \cup {path},
      bulk |-> IF path = FreshFile THEN n + 1 ELSE n,
      cut |-> FALSE]}

\* processed_files after add(path) and the periodic clean-up, as the named
\* paths it holds and the number of its other paths. The set the code
\* rebuilds is the tail of a list of a set, whose order is arbitrary, so any
\* WindowKeep of its elements may be the ones kept
WindowsAfterAdd(window, n, path) ==
    LET named == IF path = FreshFile THEN window ELSE window \cup {path}
        others == IF path = FreshFile THEN n + 1 ELSE n
    IN  IF Cardinality(named) + others > WindowCapacity
        THEN {[named |-> w, bulk |-> WindowKeep - Cardinality(w),
               cut |-> TRUE] :
                 w \in {k \in SUBSET named :
                           /\ Cardinality(k) <= WindowKeep
                           /\ WindowKeep - Cardinality(k) <= others}}
        ELSE {[named |-> named, bulk |-> others, cut |-> FALSE]}

\* what the callback finds at the path
ContentOf(path) == IF path = FreshFile THEN "text" ELSE fs[path]

\* file_queue.get returning the head item without taking it off the queue
Get_NoDequeue(h) ==
    /\ pc[h] = "get"
    /\ file_queue[h] # << >>
    /\ Head(file_queue[h]).path \notin processed_files[h]
    /\ pc' = [pc EXCEPT ![h] = "callback"]
    /\ cur' = [cur EXCEPT ![h] = Head(file_queue[h])]
    /\ compacted' = [compacted EXCEPT ![h] = FALSE]
    /\ Silent
    /\ UNCHANGED << monitorVars, file_extensions, file_queue, processed_files,
                    fs, histVars, nEvents, bulk, seen >>

\* file_queue.get(timeout=1) returns an item. A path in the window is
\* skipped; otherwise the settle delay elapses and the callback is entered
Get(h) ==
    /\ pc[h] = "get"
    /\ file_queue[h] # << >>
    /\ file_queue' = [file_queue EXCEPT ![h] = Tail(@)]
    /\ stale' = [stale EXCEPT ![h] = IF @ > 0 THEN @ - 1 ELSE 0]
    /\ IF Head(file_queue[h]).path \in processed_files[h]
       THEN UNCHANGED << pc, cur, cur_stale >>
       ELSE /\ pc' = [pc EXCEPT ![h] = "callback"]
            /\ cur' = [cur EXCEPT ![h] = Head(file_queue[h])]
            /\ cur_stale' = [cur_stale EXCEPT ![h] = stale[h] > 0]
    /\ compacted' = [compacted EXCEPT ![h] = FALSE]
    /\ Silent
    /\ UNCHANGED << monitorVars, file_extensions, processed_files, fs,
                    burst, nEvents, bulk, seen >>

\* file_queue.get raising queue.Empty without the window being cleared
QueueEmpty_NoClear(h) ==
    /\ pc[h] = "get"
    /\ file_queue[h] = << >>
    /\ seen' = [seen EXCEPT ![h] = {}]
    /\ compacted' = [compacted EXCEPT ![h] = FALSE]
    /\ Silent
    /\ UNCHANGED << monitorVars, file_extensions, file_queue, processed_files,
                    pc, cur, fs, histVars, nEvents, bulk >>

\* file_queue.get(timeout=1) raises queue.Empty: the window is cleared
QueueEmpty(h) ==
    /\ pc[h] = "get"
    /\ file_queue[h] = << >>
    /\ processed_files' = [processed_files EXCEPT ![h] = {}]
    /\ bulk' = [bulk EXCEPT ![h] = 0]
    /\ seen' = [seen EXCEPT ![h] = {}]
    /\ compacted' = [compacted EXCEPT ![h] = FALSE]
    /\ Silent
    /\ UNCHANGED << monitorVars, file_extensions, file_queue, pc, cur, fs,
                    histVars, nEvents >>

\* the callback (file_callback -> analyze_monitored_file) runs and returns,
\* then the path is added to the window and task_done() is called. With no
\* WebSocket connected broadcast_analysis_result returns at once; Publish,
\* Deliver and Prune are its steps when there are connections
Callback(h) ==
    /\ pc[h] = "callback"
    /\ active_connections = << >>
    /\ published' = IF Publishes(ContentOf(cur[h].path))
                    THEN << Envelope(cur[h]) >>
                    ELSE << >>
    /\ burst' = IF cur[h].path = FreshFile THEN burst
                ELSE [burst EXCEPT ![cur[h].path] =
                        [events |-> @.events,
                         pubs |-> @.pubs + Len(published'),
                         first_read |-> IF @.first_read = 0
                                        THEN Len(@.events)
                                        ELSE @.first_read,
                         failed |-> @.failed \/ published' = << >>,
                         recovered |-> @.recovered
                                       \/ (@.failed /\ published' # << >>)]]
    /\ \E w \in WindowsAfterAdd(processed_files[h], bulk[h], cur[h].path) :
          /\ processed_files' = [processed_files EXCEPT ![h] = w.named]
          /\ bulk' = [bulk EXCEPT ![h] = w.bulk]
          /\ compacted' = [compacted EXCEPT ![h] = w.cut]
    /\ seen' = [seen EXCEPT ![h] = @ \cup ({cur[h].path} \ {FreshFile})]
    /\ UNCHANGED << scanVars, broadcastVars >>
    /\ pc' = [pc EXCEPT ![h] = "get"]
    /\ cur' = [cur EXCEPT ![h] = NoItem]
    /\ cur_stale' = [cur_stale EXCEPT ![h] = FALSE]
    /\ ret' = NoResponse
    /\ UNCHANGED << monitorVars, file_extensions, file_queue, fs, stale,
                    nEvents >>

\* the callback raises and the worker thread ends with it
CallbackRaises_Fatal(h) ==
    /\ pc[h] = "callback"
    /\ cur[h].path # FreshFile
    /\ burst' = [burst EXCEPT ![cur[h].path].failed = TRUE,
                              ![cur[h].path].first_read =
                                  IF @ = 0 THEN Len(burst[cur[h].path].events) ELSE @]
    /\ pc' = [pc EXCEPT ![h] = "dead"]
    /\ cur' = [cur EXCEPT ![h] = NoItem]
    /\ cur_stale' = [cur_stale EXCEPT ![h] = FALSE]
    /\ Silent
    /\ UNCHANGED << monitorVars, file_extensions, file_queue, processed_files,
                    fs, stale, nEvents, windowVars >>

\* the callback raises: the exception is caught and logged, the path is not
\* added to the window, task_done() is called and the loop goes on
CallbackRaises(h) ==
    /\ pc[h] = "callback"
    /\ cur[h].path # FreshFile
    /\ burst' = [burst EXCEPT ![cur[h].path].failed = TRUE,
                              ![cur[h].path].first_read =
                                  IF @ = 0 THEN Len(burst[cur[h].path].events) ELSE @]
    /\ pc' = [pc EXCEPT ![h] = "get"]
    /\ cur' = [cur EXCEPT ![h] = NoItem]
    /\ cur_stale' = [cur_stale EXCEPT ![h] = FALSE]
    /\ Silent
    /\ UNCHANGED << monitorVars, file_extensions, file_queue, processed_files,
                    fs, stale, nEvents, windowVars >>

-----------------------------------------------------------------------------
(* The broadcaster: active_connections, monitoring_websocket and
   broadcast_analysis_result. A publish runs in the worker thread of the
   handler whose callback made it (file_callback calls asyncio.run there);
   the WebSocket handlers run in the server's event loop *)

\* WebSocket connections
MaxConnections == 2
\* analysis results published
MaxResults == 2

Connections == 1..MaxConnections

\* the threads that publish: the worker of each handler
Publishers == Handlers

\* the messages a WebSocket is sent: the status snapshot, analysis result n
STATUS == [type |-> "status", n |-> 0]
Result(n) == [type |-> "result", n |-> n]

\* no broadcast in progress, none made yet
NoPublish_t ==
    [pc |-> "idle", msg |-> 0, idx |-> 0, disconnected |-> << >>,
     kept |-> {}, attempted |-> {}, failed |-> {}, pruned |-> {}]

\* everything but the broadcaster
pipelineVars == << monitorVars, workerVars, fs, published, histVars, ret,
                   nEvents, windowVars, scanVars >>

\* the number of the next analysis result
NextResult == 1 + MaxOf({pub[t].msg : t \in Publishers})

\* active_connections.remove(c), guarded by "c in active_connections"; a
\* broadcast in progress no longer counts c among the connections that
\* stayed for its whole duration
Removed(c, publishing) ==
    /\ active_connections' = SelectSeq(active_connections, LAMBDA x : x # c)
    /\ pub' = [t \in Publishers |->
                 IF publishing[t].pc = "idle" THEN publishing[t]
                 ELSE [publishing[t] EXCEPT !.kept = @ \ {c}]]

\* monitoring_websocket: accept() and active_connections.append
Connect(c) ==
    /\ ws[c] = "new"
    /\ ws' = [ws EXCEPT ![c] = "accepted"]
    /\ active_connections' = Append(active_connections, c)
    /\ UNCHANGED << inbox, pub, pipelineVars >>

\* monitoring_websocket: the initial status message is sent, or the send
\* raises and the connection is removed
Snapshot(c, ok) ==
    /\ ws[c] = "accepted"
    /\ IF ok
       THEN /\ inbox' = [inbox EXCEPT ![c] = Append(@, STATUS)]
            /\ ws' = [ws EXCEPT ![c] = "open"]
            /\ UNCHANGED << active_connections, pub >>
       ELSE /\ ws' = [ws EXCEPT ![c] = "closed"]
            /\ Removed(c, pub)
            /\ UNCHANGED inbox
    /\ UNCHANGED pipelineVars

\* monitoring_websocket: receive_text() raises (the client disconnected) and
\* the connection is removed
Disconnect(c) ==
    /\ ws[c] = "open"
    /\ ws' = [ws EXCEPT ![c] = "closed"]
    /\ Removed(c, pub)
    /\ UNCHANGED << inbox, pipelineVars >>

\* broadcast_analysis_result is entered: it returns at once if there is no
\* connection, else it starts to iterate over active_connections
Publish(t) ==
    /\ pub[t].pc = "idle"
    /\ NextResult <= MaxResults
    /\ pub' = [pub EXCEPT ![t] =
                 IF active_connections = << >>
                 THEN [NoPublish_t EXCEPT !.msg = NextResult]
                 ELSE [pc |-> "iter", msg |-> NextResult, idx |-> 1,
                       disconnected |-> << >>,
                       kept |-> SeqRange(active_connections),
                       attempted |-> {}, failed |-> {}, pruned |-> {}]]
    /\ UNCHANGED << active_connections, ws, inbox, pipelineVars >>

\* one round of the loop over active_connections: the list iterator yields
\* the element at its index, if there is one, and send_text succeeds or
\* raises; past the end of the list the loop is left
Deliver(t, ok) ==
    /\ pub[t].pc = "iter"
    /\ IF pub[t].idx <= Len(active_connections)
       THEN LET c == active_connections[pub[t].idx]
            IN  /\ inbox' = IF ok
                            THEN [inbox EXCEPT ![c] =
                                     Append(@, Result(pub[t].msg))]
                            ELSE inbox
                /\ pub' = [pub EXCEPT ![t] =
                             [@ EXCEPT !.idx = @ + 1,
                                       !.attempted = @ \cup {c},
                                       !.failed = IF ok THEN @ ELSE @ \cup {c},
                                       !.disconnected =
                                           IF ok THEN @ ELSE Append(@, c)]]
       ELSE /\ pub' = [pub EXCEPT ![t].pc = "prune"]
            /\ UNCHANGED inbox
    /\ UNCHANGED << active_connections, ws, pipelineVars >>

\* one round of the loop over disconnected: the connection is removed if it
\* is still listed; after the last one broadcast_analysis_result returns
Prune(t) ==
    /\ pub[t].pc = "prune"
    /\ IF pub[t].disconnected # << >>
       THEN LET c == Head(pub[t].disconnected)
            IN  Removed(c, [pub EXCEPT ![t] =
                              [@ EXCEPT !.disconnected = Tail(@),
                                        !.pruned =
                                            IF c \in SeqRange(active_connections)
                                            THEN @ \cup {c} ELSE @]])
       ELSE /\ pub' = [pub EXCEPT ![t].pc = "idle"]
            /\ UNCHANGED active_connections
    /\ UNCHANGED << ws, inbox, pipelineVars >>

-----------------------------------------------------------------------------
(* The system *)

\* the monitor, the handlers and the broadcaster after construction
InitPipeline ==
    /\ running = FALSE
    /\ monitored_paths = {}
    /\ observers = [p \in Paths |-> 0]
    /\ handler = 0
    /\ all_observers = << >>
    /\ file_extensions = [h \in Handlers |-> << >>]
    /\ file_queue = [h \in Handlers |-> << >>]
    /\ processed_files = [h \in Handlers |-> {}]
    /\ pc = [h \in Handlers |-> "none"]
    /\ cur = [h \in Handlers |-> NoItem]
    /\ fs = [f \in Files |-> "missing"]
    /\ published = << >>
    /\ burst = [f \in Files |-> NoBurst]
    /\ stale = [h \in Handlers |-> 0]
    /\ cur_stale = [h \in Handlers |-> FALSE]
    /\ ret = NoResponse
    /\ nEvents = 0
    /\ bulk = [h \in Handlers |-> 0]
    /\ seen = [h \in Handlers |-> {}]
    /\ compacted = [h \in Handlers |-> FALSE]
    /\ active_connections = << >>
    /\ ws = [c \in Connections |-> "new"]
    /\ inbox = [c \in Connections |-> << >>]
    /\ pub = [t \in Publishers |-> NoPublish_t]

Init ==
    /\ InitPipeline
    /\ scan = NoScan
    /\ scanned = {}

\* a start request with its path list and extensions drawn from the given
\* sets; any of its directories may fail to be watched
StartWith(lists, exts) ==
    \E paths \in lists, req_exts \in exts :
        \E fail \in SUBSET {p \in SeqRange(paths) : PathIsDir(p)} :
            StartMonitoring(paths, req_exts, fail)

\* the pipeline at work: requests naming one directory and one bad path,
\* default extensions, one monitored and one filtered file
PipelineLists == ListsOver({"d1", "nodir"})
PipelineFiles == {FileA, FileT}

Start == StartWith(PipelineLists, {None})

Stop == StopMonitoring

Create == \E f \in PipelineFiles, c \in Contents : FsCreate(f, c)

Modify == \E f \in PipelineFiles, c \in Contents : FsModify(f, c)

Delete == \E f \in PipelineFiles : FsDelete(f)

WorkerGet == \E h \in Handlers : Get(h)

WorkerQueueEmpty == \E h \in Handlers : QueueEmpty(h)

WorkerCallback == \E h \in Handlers : Callback(h)

Next ==
    \/ Start
    \/ Stop
    \/ Status
    \/ Create
    \/ Modify
    \/ Delete
    \/ WorkerGet
    \/ WorkerQueueEmpty
    \/ WorkerCallback

Spec == Init /\ [][Next]_vars

\* the control plane alone, under every request input to an Idle monitor. A
\* start while Running returns at the running check, before its paths and
\* extensions are used, so there one request stands for all (Start draws
\* its requests in either state)
ControlStart ==
    IF running THEN StartMonitoring(<< >>, None, {})
    ELSE StartWith(PathLists, ExtInputs)

ControlNext == ControlStart \/ Stop \/ Status

ControlSpec == Init /\ [][ControlNext]_vars

\* the event filter, under every extension list: requests naming existing
\* directories, events for every kind of file
FilterLists == {<< "d1" >>, << "d2" >>, << "d1", "d2" >>}

FilterStart == StartWith(FilterLists, ExtInputs)

FilterCreate == \E f \in Files : FsCreate(f, "text")

FilterModify == \E f \in Files : FsModify(f, "text")

FilterNext == FilterStart \/ Stop \/ FilterCreate \/ FilterModify

FilterSpec == Init /\ [][FilterNext]_vars

\* the dedup window filling up: one run on d1, a stream of new files and one
\* file that is watched for
WindowStart == StartWith({<< "d1" >>}, {None})

WindowCreate == FsCreate(FileA, "text")

WindowNext ==
    \/ WindowStart
    \/ FsCreateNew
    \/ WindowCreate
    \/ WorkerGet
    \/ WorkerQueueEmpty
    \/ WorkerCallback

WindowSpec == Init /\ [][WindowNext]_vars

\* the broadcaster: connections come and go while results are published
BroadcastNext ==
    \/ \E c \in Connections : Connect(c)
    \/ \E c \in Connections, ok \in BOOLEAN : Snapshot(c, ok)
    \/ \E c \in Connections : Disconnect(c)
    \/ \E t \in Publishers : Publish(t)
    \/ \E t \in Publishers, ok \in BOOLEAN : Deliver(t, ok)
    \/ \E t \in Publishers : Prune(t)

BroadcastSpec == Init /\ [][BroadcastNext]_vars

\* the worker threads are scheduled: a worker that can take a step does
\* the static analysis alone: one scan of a small content under an accepted
\* language name in lower or mixed case or under an unsupported name, or one
\* score of a list of results, or one listing of the patterns
ScanLines == UNION {[1..n -> Fragments] : n \in 0..MaxFragments}

ScanContents == UNION {[1..n -> ScanLines] : n \in 1..MaxLines}

ScanTypes ==
    {Chars_javascript, Chars_js, Chars_html, Chars_htm,
     Chars_python, Chars_py, Chars_powershell, Chars_ps1,
     << "J", "a", "v", "a", "S", "c", "r", "i", "p", "t" >>, << "J", "S" >>,
     << "H", "T", "M", "L" >>, << "H", "t", "m" >>,
     << "P", "y", "t", "h", "o", "n" >>, << "P", "Y" >>,
     << "P", "o", "w", "e", "r", "S", "h", "e", "l", "l" >>, << "P", "S", "1" >>,
     << "e", "x", "e" >>, << "E", "X", "E" >>, << >>}

Severities == {"high", "medium", "low"}

\* the call about to be made: its arguments are drawn in the initial state
ScanCalls ==
    {[op |-> "call", content |-> content, file_type |-> file_type] :
        content \in ScanContents, file_type \in ScanTypes}
    \cup {[op |-> "score_call", severities |-> severities] :
            severities \in UNION {[1..n -> Severities] : n \in 0..MaxFindings}}
    \cup {[op |-> "patterns_call", file_type |-> file_type] :
            file_type \in {None} \cup {Some(t) : t \in ScanTypes}}

ScanInit ==
    /\ InitPipeline
    /\ scan \in ScanCalls
    /\ scanned = {}

ScanCall == scan.op = "call" /\ Scan(scan.content, scan.file_type)

ScoreCall == scan.op = "score_call" /\ Score(scan.severities)

PatternsCall == scan.op = "patterns_call" /\ ListPatterns(scan.file_type)

ScanNext ==
    \/ ScanCall
    \/ ScoreCall
    \/ PatternsCall

ScanSpec == ScanInit /\ [][ScanNext]_vars

\* a content with one finding
TextContent == << << "eval(x)" >> >>

\* scans of the same inputs between the steps of the pipeline
PurityInputs == {<< TextContent, Chars_js >>, << TextContent, << "P", "Y" >> >>}

PurityStart == StartWith({<< "d1" >>}, {None})

PurityCreate == FsCreate(FileA, "text")

PurityScan == \E i \in PurityInputs : Scan(i[1], i[2])

PurityNext ==
    \/ PurityStart
    \/ Stop
    \/ PurityCreate
    \/ WorkerGet
    \/ WorkerQueueEmpty
    \/ WorkerCallback
    \/ PurityScan

PuritySpec == Init /\ [][PurityNext]_vars

\* one monitored file that may be missing, locked or blank when its work
\* item is handled, and a callback that may raise
FailureStart == StartWith({<< "d1" >>}, {None})

FailureCreate == \E c \in Contents : FsCreate(FileA, c)

FailureModify == \E c \in Contents : FsModify(FileA, c)

FailureDelete == FsDelete(FileA)

WorkerCallbackRaises == \E h \in Handlers : CallbackRaises(h)

FailureNext ==
    \/ FailureStart
    \/ Stop
    \/ FailureCreate
    \/ FailureModify
    \/ FailureDelete
    \/ WorkerGet
    \/ WorkerQueueEmpty
    \/ WorkerCallback
    \/ WorkerCallbackRaises

FailureSpec == Init /\ [][FailureNext]_vars

\* every worker thread keeps running
FairFailureSpec == FailureSpec /\ \A h \in Handlers :
    WF_vars(Get(h) \/ QueueEmpty(h) \/ Callback(h) \/ CallbackRaises(h))

\* files with different extensions and letter case in two monitored
\* directories, under the default and under a requested filter
EnvelopeFiles == {FileA, FileB, FileT}

EnvelopeStart == StartWith({<< "d1", "d2" >>}, {None, Some(<< << ".", "P", "Y" >>, << "t", "x", "t" >> >>)})

EnvelopeCreate == \E f \in EnvelopeFiles, c \in Contents : FsCreate(f, c)

EnvelopeNext ==
    \/ EnvelopeStart
    \/ EnvelopeCreate
    \/ WorkerGet
    \/ WorkerQueueEmpty
    \/ WorkerCallback

EnvelopeSpec == Init /\ [][EnvelopeNext]_vars

\* one scan of a content of up to MaxContextLines lines of at most one
\* fragment each
ContextLines == {<< >>, << "eval(x)" >>, << "navigator.userAgent" >>, << "import os" >>,
                 << "<script>eval(y)</script>" >>}

ContextContents == UNION {[1..n -> ContextLines] : n \in 1..MaxContextLines}

ContextInit ==
    /\ InitPipeline
    /\ scan \in {[op |-> "call", content |-> content, file_type |-> file_type] :
                    content \in ContextContents,
                    file_type \in {Chars_js, Chars_python, << "H", "T", "M", "L" >>}}
    /\ scanned = {}

ContextNext == ScanCall

ContextSpec == ContextInit /\ [][ContextNext]_vars

FairSpec == Spec /\ \A h \in Handlers :
    WF_vars(Get(h) \/ QueueEmpty(h) \/ Callback(h))

-----------------------------------------------------------------------------
(* Claims about the worker and the watches (checked under Spec / FairSpec) *)

InCallback == {h \in Handlers : pc[h] = "callback"}

\* C1: across any sequence of start, stop and filesystem events, at most one
\* invocation of the per-event callback is in progress at any time.
AtMostOneAnalysisInFlight == Cardinality(InCallback) <= 1

\* f was created and modified twice while one run monitored it, the first
\* callback for f ran when all three events had happened (the modifications
\* followed the create at once), f holds readable non-blank content, and
\* every worker has handled all it was given
BurstHandled(f) ==
    /\ \E h \in Handlers :
          burst[f].events = << [event_type |-> "created", handler |-> h],
                               [event_type |-> "modified", handler |-> h],
                               [event_type |-> "modified", handler |-> h] >>
    /\ burst[f].first_read = 3
    /\ Publishes(fs[f])
    /\ \A h \in Handlers : pc[h] # "callback" /\ file_queue[h] = << >>

\* C2: creating, then immediately modifying twice, a file with a monitored
\* extension inside a monitored directory (three queued events for one path)
\* yields exactly one published analysis result.
BurstYieldsOneResult ==
    \A f \in Files : BurstHandled(f) => burst[f].pubs = 1

\* C3: after stop() has returned, no callback is invoked for a work item that
\* was still queued, not yet dequeued, when stop() was called.
NoCallbackForItemsQueuedAtStop ==
    \A h \in Handlers : pc[h] = "callback" => ~cur_stale[h]

\* the last step was a stop() that stopped the run of handler h
RunStopped(h) == ret.op = "stop" /\ ret.status = "stopped" /\ handler = h

\* the worker thread of h is alive: it is polling its queue or in the callback
WorkerAlive(h) == pc[h] \in {"get", "callback"}

\* C4: after stop() the consumer eventually observes the stop signal and
\* exits its loop; a stopped run leaves no live worker behind.
StoppedWorkerExits ==
    \A h \in Handlers : RunStopped(h) ~> ~WorkerAlive(h)

AliveObservers == 1..Len(all_observers)

\* C5: after stop() has returned every OS watch registered by the preceding
\* start() has been stopped: while the pipeline is Idle no watch is left to
\* enqueue an event, whatever path list start() was given.
NoWatchWhileIdle == ~running => AliveObservers = {}

-----------------------------------------------------------------------------
(* Claims about start, stop and status *)

\* the worker threads that exist
Workers == {h \in Handlers : pc[h] # "none"}

\* C6: calling start while Running returns already_running and changes
\* nothing: monitored paths, registered watches, the effective extension
\* filter, the registered handler and the set of workers stay as they were.
StartWhileRunningChangesNothing ==
    [][(running /\ ret'.op = "start") =>
          /\ ret'.status = "already_running"
          /\ UNCHANGED << monitorVars, workerVars >>
          /\ Workers' = Workers
          /\ GetStatus' = GetStatus]_vars

\* start was called while a worker was in the middle of an analysis
StartedWhileRunning ==
    /\ ret.op = "start"
    /\ ret.status = "already_running"
    /\ InCallback # {}

\* C7: calling stop while Idle returns not_running and is a no-op: running,
\* monitored paths, watches and the queues are unchanged.
StopWhileIdleChangesNothing ==
    [][(~running /\ ret'.op = "stop") =>
          /\ ret'.status = "not_running"
          /\ UNCHANGED << monitorVars, workerVars >>]_vars

\* stop was called while Idle, with items of an earlier run still queued
StoppedWhileIdle ==
    /\ ret.op = "stop"
    /\ ret.status = "not_running"
    /\ \E h \in Handlers : file_queue[h] # << >>

\* a path of a request that exists, is a directory, and whose watch could be
\* registered
GoodDirectory(request, p) ==
    PathExists(p) /\ PathIsDir(p) /\ p \notin request.fail

GoodDirectories(request) ==
    {p \in SeqRange(request.paths) : GoodDirectory(request, p)}

\* C8: start from Idle with at least one valid directory returns started,
\* monitored_paths being exactly the valid directories and invalid_paths
\* exactly the paths that do not exist, are no directories or could not be
\* watched; every valid directory is watched whatever the invalid ones.
PartialStartSucceeds ==
    [][(~running /\ ret'.op = "start"
            /\ GoodDirectories(ret'.request) # {}) =>
          /\ ret'.status = "started"
          /\ running'
          /\ SeqRange(ret'.monitored_paths.val) = GoodDirectories(ret'.request)
          /\ SeqRange(ret'.invalid_paths.val) =
                SeqRange(ret'.request.paths) \ GoodDirectories(ret'.request)
          /\ monitored_paths' = GoodDirectories(ret'.request)
          /\ \A p \in GoodDirectories(ret'.request) :
                \E i \in AliveObservers' :
                    /\ all_observers'[i].path = p
                    /\ all_observers'[i].handler = handler']_vars

\* a start that succeeded although one of its paths was invalid
StartedWithInvalidPath ==
    /\ ret.op = "start"
    /\ ret.status = "started"
    /\ ret.invalid_paths.val # << >>

\* C9: start from Idle with zero valid paths returns a failure status and the
\* pipeline remains Idle: running stays false, no path is monitored, no watch
\* is registered, and status() reports the same values as before the call.
FailedStartLeavesIdle ==
    [][(~running /\ ret'.op = "start" /\ GoodDirectories(ret'.request) = {}) =>
          /\ ret'.status = "failed"
          /\ ~running'
          /\ monitored_paths' = {}
          /\ AliveObservers' = AliveObservers
          /\ GetStatus' = GetStatus]_vars

\* C10: the extensions returned by a successful start are the effective
\* filter: each entry has a leading dot, the built-in default list is
\* reported when the caller omitted extensions, and the value equals what
\* status() reports immediately afterwards.
StartReportsEffectiveExtensions ==
    (ret.op = "start" /\ ret.status = "started") =>
        /\ \A i \in 1..Len(ret.file_extensions.val) :
              StartsWithDot(ret.file_extensions.val[i])
        /\ ret.request.file_extensions.isNone =>
              ret.file_extensions = Some(DefaultExtensions)
        /\ ret.file_extensions = GetStatus.file_extensions

-----------------------------------------------------------------------------
(* Claims about the event filter (checked under FilterSpec) *)

\* the filter of h is empty or holds the extension of f, compared without
\* regard to case
MatchesFilter(h, f) ==
    \/ file_extensions[h] = << >>
    \/ \E i \in 1..Len(file_extensions[h]) :
          LowerStr(file_extensions[h][i]) = LowerStr(SplitExt(f.name))

\* this step is a created or modified event for f
EventStep(f) ==
    /\ Len(burst'[f].events) = Len(burst[f].events) + 1
    /\ burst'[f].events[Len(burst'[f].events)].event_type
          \in {"created", "modified"}

\* C11: a created or modified event delivered to a handler is enqueued if
\* and only if it is no directory event and the filter is empty or holds
\* the extension of the path, both compared case-insensitively.
FilterIsCaseInsensitive ==
    [][\A f \in Files, h \in Handlers :
          (EventStep(f) /\ Watching(h, f) # {}) =>
              ((file_queue'[h] # file_queue[h])
                  <=> (~f.is_directory /\ MatchesFilter(h, f)))]_vars

-----------------------------------------------------------------------------
(* Claims about the broadcaster (checked under BroadcastSpec) *)

\* the broadcasts that have returned
Returned == {t \in Publishers : pub[t].pc = "idle" /\ pub[t].msg > 0}

\* C12: for every publish and every set of failing deliveries, delivery is
\* attempted to every other subscriber that stayed, each failing subscriber
\* is out of the set when publish returns, and publish removes no
\* subscriber whose delivery did not fail.
PublishIsolatesFailures ==
    \A t \in Returned :
        /\ pub[t].kept \subseteq pub[t].attempted
        /\ pub[t].failed \cap SeqRange(active_connections) = {}
        /\ pub[t].pruned \subseteq pub[t].failed

\* how often connection c was sent result n
Received(c, n) ==
    Cardinality({i \in 1..Len(inbox[c]) : inbox[c][i] = Result(n)})

\* C13: under any interleaving of subscribe, unsubscribe and pruning with a
\* publish, every subscriber that is in the set for the whole duration of
\* the publish receives its result exactly once.
StableSubscriberReceivesOnce ==
    \A t \in Returned : \A c \in pub[t].kept : Received(c, pub[t].msg) = 1

\* C14: the first message a new subscriber receives is the initial status
\* snapshot, never an analysis result published while it subscribes.
SnapshotComesFirst ==
    \A c \in Connections : inbox[c] # << >> => inbox[c][1] = STATUS

-----------------------------------------------------------------------------
(* Claims about the dedup window (checked under WindowSpec and Spec) *)

WindowSize(h) == Cardinality(processed_files[h]) + bulk[h]

\* C15: the dedup window never grows unbounded: it holds at most 100 paths
\* whenever the worker dequeues an item, and exactly 50 immediately after a
\* compaction.
WindowStaysBounded ==
    \A h \in Handlers :
        /\ WindowSize(h) <= 100
        /\ compacted[h] => WindowSize(h) = 50

\* a worker has just cut its window back
WindowCompacted == \E h \in Handlers : compacted[h]

\* C16: a compaction keeps the 50 most recently processed paths; in
\* particular the path just processed is retained.
CompactionKeepsMostRecent ==
    [][\A h \in Handlers :
          (pc[h] = "callback" /\ compacted'[h] /\ cur[h].path # FreshFile)
              => cur[h].path \in processed_files'[h]]_vars

\* the worker of h dequeues an item and skips it
Skips(h) ==
    /\ pc[h] = "get"
    /\ file_queue[h] # << >>
    /\ file_queue'[h] = Tail(file_queue[h])
    /\ pc'[h] = "get"

\* C17: whenever the worker finds the queue empty the window is cleared, so
\* an item is skipped only if its path was processed since the worker last
\* found the queue empty: an event enqueued after that is analysed again.
DrainedQueueClearsWindow ==
    [][\A h \in Handlers :
          Skips(h) => Head(file_queue[h]).path \in seen[h]]_vars

\* the only worker is analysing a file again that it has analysed before
AnalysedAgainAfterDrain ==
    \E h \in Handlers :
        /\ NumHandlers = 1
        /\ pc[h] = "callback"
        /\ cur[h].path # FreshFile
        /\ burst[cur[h].path].first_read > 0
        /\ cur[h].path \notin seen[h]

-----------------------------------------------------------------------------
(* Claims about work items (checked under Spec) *)

IsPrefix(a, b) == Len(a) <= Len(b) /\ SubSeq(b, 1, Len(a)) = a

\* C18: every work item enqueued by a watch callback is consumed exactly
\* once: a step either dequeues the head item, which alone may start one
\* callback for that item, or leaves the queued items in place (adding
\* items only for a filesystem event) and starts no callback.
ItemConsumedOnce ==
    [][\A h \in Handlers :
          \/ /\ pc[h] = "get"
             /\ file_queue[h] # << >>
             /\ file_queue'[h] = Tail(file_queue[h])
             /\ pc'[h] = "callback" => cur'[h] = Head(file_queue[h])
          \/ /\ IsPrefix(file_queue[h], file_queue'[h])
             /\ file_queue'[h] # file_queue[h] => nEvents' = nEvents + 1
             /\ pc'[h] = "callback" =>
                    (pc[h] = "callback" /\ cur'[h] = cur[h])]_vars

\* a callback runs for an item while an equal item (the same event seen by
\* a second watch) is still queued
CallbackWithTwinQueued ==
    \E h \in Handlers :
        /\ pc[h] = "callback"
        /\ file_queue[h] # << >>
        /\ Head(file_queue[h]) = cur[h]

-----------------------------------------------------------------------------
(* Claims about the static analysis (checked under ScanSpec) *)

\* the catalog each accepted language name stands for
CatalogOf(file_type) ==
    CASE file_type \in {Chars_javascript, Chars_js} -> JS_PATTERNS
      [] file_type \in {Chars_html, Chars_htm} -> HTML_PATTERNS
      [] file_type \in {Chars_python, Chars_py} -> PYTHON_PATTERNS
      [] file_type \in {Chars_powershell, Chars_ps1} -> POWERSHELL_PATTERNS
      [] OTHER -> << >>

\* what the patterns of a catalog match in a content
CatalogFindings(patterns, content) ==
    Flatten([i \in 1..Len(patterns) |-> PatternResults(patterns[i], content)])

ZeroedFailure(r) ==
    /\ r.success = FALSE
    /\ ~r.error.isNone
    /\ r.results = << >>
    /\ r.summary.pattern_count = << >>
    /\ r.summary.total_detections = 0
    /\ r.summary.suspicion_score = Zero

\* C19: a scan never raises for invalid input: empty content gives a failure
\* result with an error, no findings and a zeroed summary; an unrecognised
\* language gives the same shape with an error naming that language (up to
\* letter case); and every accepted language name, in any letter case,
\* selects its catalog: the scan succeeds with the findings of that catalog.
ScanRejectsInvalidAndSelectsCatalog ==
    scan.op = "scan" =>
        LET r == scan.result
            name == LowerStr(scan.file_type)
        IN /\ scan.content = EmptyContent => ZeroedFailure(r)
           /\ (scan.content # EmptyContent /\ CatalogOf(name) = << >>) =>
                  /\ ZeroedFailure(r)
                  /\ LowerStr(r.error.val.arg) = name
           /\ (scan.content # EmptyContent /\ CatalogOf(name) # << >>) =>
                  /\ r.success
                  /\ r.results = CatalogFindings(CatalogOf(name), scan.content)

CountOf(results, severity) ==
    Cardinality({i \in 1..Len(results) : results[i].severity = severity})

\* the list of results a call scored, and the score it returned
Scored ==
    IF scan.op = "score" THEN [results |-> scan.results, score |-> scan.score]
    ELSE [results |-> scan.result.results,
          score |-> scan.result.summary.suspicion_score]

\* C20: for every findings list, with raw = 1.0 * (number of high) +
\* 0.6 * (number of medium) + 0.3 * (number of low), the suspicion score is 0
\* when raw <= 0.3 and is 1 - 1/(1 + 0.5 * raw) = raw / (raw + 2) otherwise.
ScoreFollowsFormula ==
    (scan.op = "score" \/ (scan.op = "scan" /\ scan.result.success)) =>
        LET raw == Frac(10 * CountOf(Scored.results, "high")
                        + 6 * CountOf(Scored.results, "medium")
                        + 3 * CountOf(Scored.results, "low"), 10)
        IN IF FracLe(raw, Frac(3, 10))
           THEN FracEq(Scored.score, Zero)
           ELSE /\ FracEq(Scored.score,
                          FracSub(One, FracDiv(One, FracAdd(One, FracMul(Frac(1, 2), raw)))))
                /\ FracEq(Scored.score, FracDiv(raw, FracAdd(raw, Frac(2, 1))))

\* a scan that found exactly one low-severity pattern and scored it 0
ScannedOneLowFinding ==
    /\ scan.op = "scan"
    /\ scan.result.success
    /\ Len(scan.result.results) = 1
    /\ scan.result.results[1].severity = "low"
    /\ scan.result.summary.suspicion_score = Zero

\* the severities above a severity
Higher(severity) ==
    CASE severity = "low" -> {"medium", "high"}
      [] severity = "medium" -> {"high"}
      [] OTHER -> {}

\* the severities of a scored list with one more finding, or with the
\* severity of one finding raised
Grown(results) ==
    {results \o << [severity |-> s] >> : s \in Severities}
    \cup {[results EXCEPT ![p[1]] = [severity |-> p[2]]] :
             p \in {q \in (1..Len(results)) \X Severities :
                        q[2] \in Higher(results[q[1]].severity)}}

SeveritiesOf(results) == [i \in 1..Len(results) |-> [severity |-> results[i].severity]]

\* C21: the suspicion score is always in [0,1] and is monotonically
\* non-decreasing: adding a finding of any severity to a findings list, or
\* raising the severity of one finding, never lowers the score.
ScoreIsBoundedAndMonotone ==
    (scan.op = "score" \/ (scan.op = "scan" /\ scan.result.success)) =>
        /\ FracLe(Zero, Scored.score)
        /\ FracLe(Scored.score, One)
        /\ \A more \in Grown(SeveritiesOf(Scored.results)) :
               FracLe(Scored.score, calculate_suspicion_score(more))

\* a single low finding was scored 0 and a second low finding lifts the score
ScoredAtTheCut ==
    /\ scan.op = "score"
    /\ Len(scan.results) = 1
    /\ scan.results[1].severity = "low"
    /\ scan.score = Zero
    /\ ~FracEq(calculate_suspicion_score(scan.results \o << [severity |-> "low"] >>), Zero)

\* the matches of a catalog in a content: << pattern index, line, fragment >>
Occurrences(patterns, content) ==
    {o \in (1..Len(patterns)) \X (1..Len(content)) \X (1..MaxFragments) :
        /\ o[3] <= Len(content[o[2]])
        /\ \E h \in patterns[o[1]].hits : h[1] = content[o[2]][o[3]]}

\* catalog order first, then line order, then left to right in the line
Precedes(a, b) ==
    \/ a[1] < b[1]
    \/ a[1] = b[1] /\ a[2] < b[2]
    \/ a[1] = b[1] /\ a[2] = b[2] /\ a[3] < b[3]

\* C22: the findings returned by a scan are ordered by the catalog order of
\* their pattern first and, within one pattern, by match occurrence (line
\* order, then left to right within a line); they are never re-sorted by line
\* number.
FindingsInCatalogOrder ==
    (scan.op = "scan" /\ scan.result.success) =>
        LET patterns == CatalogOf(LowerStr(scan.file_type))
            occ == Occurrences(patterns, scan.content)
            results == scan.result.results
        IN /\ Len(results) = Cardinality(occ)
           /\ \A o \in occ :
                  LET rank == 1 + Cardinality({b \in occ : Precedes(b, o)})
                  IN /\ results[rank].pattern_name = patterns[o[1]].pattern_name
                     /\ results[rank].line_number = o[2]
                     /\ \E h \in patterns[o[1]].hits :
                            /\ h[1] = scan.content[o[2]][o[3]]
                            /\ results[rank].matched_text = h[2]

\* a finding on line 2 stands before a finding on line 1, and two findings of
\* one pattern on one line stand left to right
LaterLineReportedFirst ==
    /\ scan.op = "scan"
    /\ scan.result.success
    /\ Len(scan.result.results) = 3
    /\ scan.result.results[1].line_number = 2
    /\ scan.result.results[1].matched_text = "eval(x)"
    /\ scan.result.results[2].line_number = 2
    /\ scan.result.results[2].matched_text = "eval(y)"
    /\ scan.result.results[3].line_number = 1

LanguageOf(file_type) ==
    CASE file_type \in {Chars_javascript, Chars_js} -> Chars_javascript
      [] file_type \in {Chars_html, Chars_htm} -> Chars_html
      [] file_type \in {Chars_python, Chars_py} -> Chars_python
      [] file_type \in {Chars_powershell, Chars_ps1} -> Chars_powershell
      [] OTHER -> << >>

\* the entries of a catalog, each tagged with a language
Tagged(patterns, language) ==
    [i \in 1..Len(patterns) |->
        [pattern_name |-> patterns[i].pattern_name,
         severity |-> patterns[i].severity,
         file_type |-> language]]

\* C24: listing the patterns of a language, given as any accepted name,
\* returns exactly the entries of that language's catalog, each tagged with
\* that language exactly as the full listing tags them; listing without a
\* language returns the union of all four catalogs, each entry tagged with its
\* owning language.
ListingTagsOwningLanguage ==
    scan.op = "patterns" =>
        LET name == IF scan.file_type.isNone THEN << >>
                    ELSE LowerStr(scan.file_type.val)
        IN /\ scan.file_type.isNone =>
                  scan.response.patterns =
                      Tagged(JS_PATTERNS, Chars_javascript)
                      \o Tagged(HTML_PATTERNS, Chars_html)
                      \o Tagged(PYTHON_PATTERNS, Chars_python)
                      \o Tagged(POWERSHELL_PATTERNS, Chars_powershell)
           /\ CatalogOf(name) # << >> =>
                  scan.response.patterns = Tagged(CatalogOf(name), LanguageOf(name))

-----------------------------------------------------------------------------
(* Claims about failures in the worker (checked under FailureSpec and
   FairFailureSpec) *)

SomeFailure == \E f \in Files : burst[f].failed

\* C25: a failure while handling one work item (file vanished before the
\* read, unreadable file, or the callback raising) is never fatal to the
\* pipeline: the file is skipped, the worker stays alive, and every item
\* enqueued afterwards is still dequeued and handled.
FailureIsNotFatal ==
    /\ [](\A h \in Handlers : pc[h] \in {"none", "get", "callback"})
    /\ \A h \in Handlers :
          (SomeFailure /\ pc[h] # "none") ~> (pc[h] = "get" /\ file_queue[h] = << >>)

\* the work item of a file failed, and a later item of the same file was
\* analysed and published
PublishedAfterFailure ==
    /\ burst[FileA].failed
    /\ burst[FileA].recovered
    /\ published # << >>

-----------------------------------------------------------------------------
(* Claims about the result envelope (checked under EnvelopeSpec) *)

\* the language an extension stands for
LanguageOfExtension(ext) ==
    CASE ext = JS -> Chars_javascript
      [] ext \in {HTML, HTM} -> Chars_html
      [] ext = PY -> Chars_python
      [] ext = PS1 -> Chars_powershell
      [] OTHER -> << >>

\* the worker of h leaves the callback in this step
Handled(h) == pc[h] = "callback" /\ pc'[h] # "callback"

\* C26: for each work item the worker handles, exactly one result envelope is
\* published when the file is readable and its content is not blank, and none
\* when the content is empty or whitespace-only or the file cannot be read;
\* the envelope carries the item's path, the language mapped from its
\* extension and the item's event type.
OneEnvelopePerReadableItem ==
    [][\A h \in Handlers : Handled(h) =>
          LET f == cur[h].path
              language == LanguageOfExtension(SplitExt(LowerStr(f.name)))
          IN IF fs[f] = "text"
             THEN /\ Len(published') = 1
                  /\ published'[1].file_path = f
                  /\ published'[1].event_type = cur[h].event_type
                  /\ language # << >> => published'[1].file_type = language
             ELSE published' = << >>]_vars

\* the envelope of a Python file whose name is in upper case
PublishedUpperCasePython ==
    /\ published # << >>
    /\ published[1].file_path = FileB
    /\ published[1].file_type = Chars_python
    /\ published[1].event_type = "created"

-----------------------------------------------------------------------------
(* Claims about the context of a finding (checked under ContextSpec) *)

\* the context size of the pattern a finding names
ContextSizeOf(patterns, pattern_name) ==
    (CHOOSE i \in 1..Len(patterns) : patterns[i].pattern_name = pattern_name)

\* C27: for every finding with line number n of a pattern with context size c
\* in a content of L lines, n is 1-indexed (1 <= n <= L) and the context is
\* exactly the lines max(1, n-c) through min(L, n+c) in document order; it
\* therefore always contains the matched line and never more than 2c+1 lines.
ContextIsClampedWindow ==
    (scan.op = "scan" /\ scan.result.success) =>
        LET patterns == CatalogOf(LowerStr(scan.file_type))
            L == Len(scan.content)
        IN \A i \in 1..Len(scan.result.results) :
              LET finding == scan.result.results[i]
                  n == finding.line_number
                  c == patterns[ContextSizeOf(patterns, finding.pattern_name)].context_lines
                  lo == IF n - c > 1 THEN n - c ELSE 1
                  hi == IF n + c < L THEN n + c ELSE L
              IN /\ 1 <= n /\ n <= L
                 /\ finding.context = [j \in 1..(hi - lo + 1) |-> scan.content[lo + j - 1]]
                 /\ finding.context[n - lo + 1] = scan.content[n]
                 /\ Len(finding.context) <= 2 * c + 1

\* a finding on line 2 of 4 whose context is lines 1 to 3, and a finding on
\* line 4 whose context is cut at the end of the content
ContextCutAtBothEnds ==
    /\ scan.op = "scan"
    /\ scan.result.success
    /\ Len(scan.content) = 4
    /\ \E i \in 1..Len(scan.result.results) :
          /\ scan.result.results[i].line_number = 2
          /\ scan.result.results[i].context = SubSeq(scan.content, 1, 3)
    /\ \E i \in 1..Len(scan.result.results) :
          /\ scan.result.results[i].line_number = 4
          /\ scan.result.results[i].context = SubSeq(scan.content, 2, 4)

-----------------------------------------------------------------------------
(* Claims about late writes (checked under Spec) *)

\* every event of f was a create or a write seen by the handler of the run
\* that is still Running, f now holds non-blank text, and the worker of that
\* run has handled everything it was given
Settled(f) ==
    /\ running
    /\ burst[f].events # << >>
    /\ \A i \in 1..Len(burst[f].events) :
          /\ burst[f].events[i].handler = handler
          /\ burst[f].events[i].event_type \in {"created", "modified"}
    /\ fs[f] = "text"
    /\ pc[handler] = "get"
    /\ file_queue[handler] = << >>

\* C28: while the pipeline stays Running, a monitored file whose content is
\* non-blank when its last event is handled is analysed and published; in
\* particular a file that was blank or unreadable when its created event was
\* handled and is written shortly after is still analysed on its modified
\* event rather than suppressed by the dedup window.
LateWriteIsAnalysed ==
    \A f \in Files : Settled(f) => burst[f].pubs > 0

-----------------------------------------------------------------------------
(* Claims about the state of the monitor (checked under ControlSpec) *)

\* the paths some running Observer watches
WatchedPaths == {all_observers[i].path : i \in 1..Len(all_observers)}

\* C29: in every state reachable by any sequence of start, stop and status
\* calls, running is true if and only if the monitored-path set is non-empty,
\* and the set of paths with a registered watch equals the monitored-path
\* set; status() reports exactly that running flag and path set.
MonitorStateIsConsistent ==
    /\ running <=> monitored_paths # {}
    /\ WatchedPaths = monitored_paths
    /\ ret.op = "status" =>
          /\ ret.running = running
          /\ ret.monitored_paths = monitored_paths

-----------------------------------------------------------------------------
(* Claims about the summary of a result (checked under ScanSpec) *)

RECURSIVE SumOver(_, _)
SumOver(f, S) ==
    IF S = {} THEN 0
    ELSE LET x == CHOOSE y \in S : TRUE
         IN f[x] + SumOver(f, S \ {x})

\* C30: every result returned by a scan is internally consistent:
\* total_detections equals the number of findings and the sum of the
\* pattern_count values, pattern_count has an entry exactly for the pattern
\* ids that occur in the findings, and a failure result always has no
\* findings and suspicion_score 0.0.
ResultIsConsistent ==
    scan.op = "scan" =>
        LET r == scan.result
            count == r.summary.pattern_count
        IN /\ r.summary.total_detections = Len(r.results)
           /\ r.summary.total_detections = SumOver(count, DOMAIN count)
           /\ DOMAIN count = {r.results[i].pattern_name : i \in 1..Len(r.results)}
           /\ \A name \in DOMAIN count : count[name] >= 1
           /\ ~r.success => (r.results = << >> /\ r.summary.suspicion_score = Zero)

\* a result with three findings of one pattern and one of another
CountedRepeatedPattern ==
    /\ scan.op = "scan"
    /\ scan.result.success
    /\ scan.result.summary.total_detections = 4
    /\ \E name \in DOMAIN scan.result.summary.pattern_count :
          scan.result.summary.pattern_count[name] = 3

====
